---- MODULE Spec2Model ----
(***************************************************************************)
(* conflux: the MongoDB-backed prefix tree (recon/mgo/ptree.go) and the    *)
(* finite-field values Zp it stores.                                       *)
(*                                                                         *)
(* The node store is the "ptree" collection: a set of nodeData records.    *)
(* Root/Node look a record up and decode it into a nodeData, whose fields  *)
(* are unexported and stay zero; Insert works on the node that Root()      *)
(* returned, Remove panics.  Byte strings are sequences of 0..255.         *)
(***************************************************************************)
EXTENDS Integers, Sequences, FiniteSets, TLC

\* ------------------------------------------------------------------ bounds
MaxBitQuantum == 2      \* bitQuantum ranges over 1..MaxBitQuantum
MaxMBar == 2            \* mBar ranges over 1..MaxMBar
MaxInserts == 5         \* Insert calls that returned nil, counted per behaviour
MaxLeaf == 5            \* elements of the root leaf the store starts with
MaxZpInt == 4           \* Zp inputs n, x, y range over -MaxZpInt..MaxZpInt
MaxZpP == 4             \* Zp moduli range over 1..MaxZpP
MaxDepth == 1           \* insert and split are called at depths 0..MaxDepth

\* the field of the tree (P_SKS in the source, here a one-byte prime)
P_SKS == 251
\* threshMult values a settings document may hold
ThreshMults == {1, 4}
\* the elements offered to Insert (none of them a sample point)
ElemValues == {64, 128, 193}

\* ------------------------------------------------------------- arithmetic
Pow2(n) == IF n <= 0 THEN 1 ELSE 2 ^ n

\* With(v, Op) is Op(v): a local name for a value
With(v, Op(_)) == Op(v)

RECURSIVE BitLen(_)
BitLen(n) == IF n <= 0 THEN 0 ELSE 1 + BitLen(n \div 2)

\* big.Int.Rem: the remainder truncated towards zero (sign of the dividend)
TruncRem(a, p) == IF a >= 0 THEN a % p ELSE 0 - ((0 - a) % p)

\* ------------------------------------------------------------------- Zp
\* A Zp is [v |-> the big.Int, P |-> the modulus].
\* Norm with big.Int.Rem in place of Mod: a negative value stays negative
NormRem(zp) == [zp EXCEPT !.v = TruncRem(zp.v, zp.P)]

\* zp.Mod(zp.Int, zp.P): big.Int.Mod is the Euclidean modulus
Norm(zp) == [zp EXCEPT !.v = zp.v % zp.P]

NewZp(p, n) == Norm([v |-> n, P |-> p])

Z(p) == [v |-> 0, P |-> p]

\* an assertP that compares the first value only
assertPFirst(zp, values) == Len(values) = 0 \/ zp.P = values[1].P

\* TRUE when assertP returns, FALSE when it panics
assertP(zp, values) == \A i \in 1..Len(values) : zp.P = values[i].P

\* Add, Mul, Sub, Cmp: [ok |-> FALSE] is the field-mismatch panic; otherwise
\* z is the receiver after the call (also the value returned).
Add(zp, x, y) ==
    IF ~assertP(zp, <<x, y>>) THEN [ok |-> FALSE, z |-> zp]
    ELSE [ok |-> TRUE, z |-> Norm([zp EXCEPT !.v = x.v + y.v])]

Mul(zp, x, y) ==
    IF ~assertP(zp, <<x, y>>) THEN [ok |-> FALSE, z |-> zp]
    ELSE [ok |-> TRUE, z |-> Norm([zp EXCEPT !.v = x.v * y.v])]

Sub(zp, x, y) ==
    IF ~assertP(zp, <<x, y>>) THEN [ok |-> FALSE, z |-> zp]
    ELSE [ok |-> TRUE, z |-> Norm([zp EXCEPT !.v = x.v - y.v])]

Cmp(zp, x) ==
    IF ~assertP(zp, <<x>>) THEN [ok |-> FALSE, c |-> 0]
    ELSE [ok |-> TRUE, c |-> IF zp.v < x.v THEN -1 ELSE IF zp.v > x.v THEN 1 ELSE 0]

\* Zpoints(p, n): the sample points 0, -1, 1, -2, 2, ...
Zpoints(p, n) ==
    [i \in 1..n |-> NewZp(p, IF ((i - 1) % 2) = 0 THEN (i \div 2) ELSE 0 - (i \div 2))]

\* ---------------------------------------------------------- byte strings
Int32Bytes(n) ==
    << (n \div 16777216) % 256, (n \div 65536) % 256, (n \div 256) % 256, n % 256 >>

\* ReadInt: the 4-byte length prefix; err on a short read
ReadInt(b) ==
    IF Len(b) < 4 THEN [err |-> TRUE, n |-> 0]
    ELSE [err |-> FALSE, n |-> ((b[1] * 256 + b[2]) * 256 + b[3]) * 256 + b[4]]

\* z.Bytes(): big-endian, no leading zero byte (values below 256 only)
ZpBytes(z) == IF z.v = 0 THEN << >> ELSE << z.v >>

ReverseBytes(b) == [i \in 1..Len(b) |-> b[Len(b) + 1 - i]]

\* WriteZZarray(out, arr): appends the count and one byte per element to out
WriteZZarray(out, arr) ==
    out \o Int32Bytes(Len(arr)) \o [i \in 1..Len(arr) |-> arr[i].v]

\* ReadZZarray(buf): the first array of buf; err when buf is too short
ReadZZarray(b) ==
    LET h == ReadInt(b) IN
    IF h.err \/ Len(b) < 4 + h.n THEN [err |-> TRUE, arr |-> << >>]
    ELSE [err |-> FALSE, arr |-> [i \in 1..h.n |-> [v |-> b[4 + i], P |-> P_SKS]]]

\* ------------------------------------------------------------- Bitstring
\* A Bitstring is [bits |-> its length in bits, buf |-> its bytes]; bit i is
\* bit 7 - i % 8 of byte i \div 8.
ByteLen(bits) == IF bits <= 0 THEN 0 ELSE (bits + 7) \div 8

NewBitstring(bits) == [bits |-> bits, buf |-> [i \in 1..ByteLen(bits) |-> 0]]

BitMask(bit) == Pow2(7 - (bit % 8))

ByteHasBit(byte, bit) == (byte \div BitMask(bit)) % 2 = 1

\* the byte with the bits at and after position keep (0..8) cleared
MaskByte(byte, keep) == (byte \div Pow2(8 - keep)) * Pow2(8 - keep)

\* SetBytes: copies buf into the bitstring's bytes, zero-padded, and clears the
\* bits past the bit length
SetBytes(bs, buf) ==
    [bs EXCEPT !.buf =
        [i \in 1..Len(bs.buf) |->
            LET raw == IF i <= Len(buf) THEN buf[i] ELSE 0 IN
            IF i = Len(bs.buf) /\ (bs.bits % 8) # 0
            THEN MaskByte(raw, (bs.bits % 8)) ELSE raw]]

\* Get/Set/Unset: ok is FALSE when the bit's byte is outside the buffer (an
\* index-out-of-range panic)
InBuf(bs, bit) == bit >= 0 /\ (bit \div 8) < Len(bs.buf)

Get(bs, bit) ==
    IF ~InBuf(bs, bit) THEN [ok |-> FALSE, b |-> 0]
    ELSE [ok |-> TRUE, b |-> IF ByteHasBit(bs.buf[(bit \div 8) + 1], bit) THEN 1 ELSE 0]

Set(bs, bit) ==
    IF ~InBuf(bs, bit) THEN [ok |-> FALSE, bs |-> bs]
    ELSE [ok |-> TRUE, bs |-> [bs EXCEPT !.buf[(bit \div 8) + 1] =
            IF ByteHasBit(@, bit) THEN @ ELSE @ + BitMask(bit)]]

Unset(bs, bit) ==
    IF ~InBuf(bs, bit) THEN [ok |-> FALSE, bs |-> bs]
    ELSE [ok |-> TRUE, bs |-> [bs EXCEPT !.buf[(bit \div 8) + 1] =
            IF ByteHasBit(@, bit) THEN @ - BitMask(bit) ELSE @]]

\* WriteBitstring(out, bs): the bit length, then the bytes
WriteBitstring(out, bs) == out \o Int32Bytes(bs.bits) \o bs.buf

\* ReadBitstring(buf): err when the length or the bytes are missing
ReadBitstring(b) ==
    LET h == ReadInt(b) IN
    IF h.err \/ Len(b) < 4 + ByteLen(h.n) THEN [err |-> TRUE, bs |-> NewBitstring(0)]
    ELSE [err |-> FALSE,
          bs |-> [bits |-> h.n, buf |-> [i \in 1..ByteLen(h.n) |-> b[4 + i]]]]


\* ------------------------------------------------------------------ state
VARIABLES
    cfg,        \* the config of the settings the tree holds
    points,     \* prefixTree.points
    store,      \* the "ptree" collection: a set of nodeData records
    tree0,      \* the collection as the tree found it at start-up
    last,       \* the last call: its name, arguments and outcome
    accepted,   \* how often Insert returned nil for each element value
    zcall,      \* the last call of the Zp arithmetic and its result
    peer,       \* construction: the settings collection, each client's
                \* settings object and tree, and the outcome of the last call
    run,        \* two runs of the same Insert calls: the calls, their outcomes
                \* and the document order of the run under way
    writer      \* an insert under way, statement by statement: where it is
                \* and the node and loop variables it holds

vars == << cfg, points, store, tree0, last, accepted, zcall, peer, run, writer >>

\* settings.Init(): the three stored parameters and the three derived ones
MkConfig(threshMult, bitQuantum, mBar) ==
    [threshMult |-> threshMult, bitQuantum |-> bitQuantum, mBar |-> mBar,
     splitThreshold |-> threshMult * mBar,
     joinThreshold |-> (threshMult * mBar) \div 2,
     numSamples |-> mBar + 1]

\* nodeData: the zero value, and a record of the collection
NilNode == [key |-> << >>, numElements |-> 0, svalues |-> << >>,
            elements |-> << >>, childKeys |-> << >>]

\* a Find whose decoder fills the node from the document the server has
\* first among those with the key
FindFirstHit(keyBytes) ==
    LET hits == {r \in store : r.key = keyBytes} IN
    IF hits = {} THEN [err |-> TRUE, node |-> NilNode]
    ELSE [err |-> FALSE,
          node |-> IF run.first \in hits THEN run.first ELSE CHOOSE h \in hits : TRUE]

\* q.One(nd): mgo.ErrNotFound when no document has that key.  When one has,
\* One returns nil and nd stays the zero nodeData: every field of nodeData is
\* unexported, and the decoder fills exported fields only
Find(keyBytes) ==
    LET hits == {r \in store : r.key = keyBytes} IN
    IF hits = {} THEN [err |-> TRUE, node |-> NilNode]
    ELSE [err |-> FALSE, node |-> NilNode]

Root == Find(<< >>)

Node(bs) == Find(bs.buf)

\* a Remove that returns nil and does nothing
RemoveSilent(z) == [panic |-> "", store |-> store]

\* Remove panics before it touches anything
Remove(z) == [panic |-> "remove not impl", store |-> store]

IsLeaf(n) == Len(n.childKeys) = 0

\* Key(): panic is TRUE on "Invalid bitstring"
Key(n) ==
    LET r == ReadBitstring(n.key) IN [panic |-> r.err, bs |-> r.bs]

\* the inner loop of Children and newChildNode: bit base + j of bs is set to
\* bit j of index, for j = from..bitQuantum-1
RECURSIVE SetChildBits(_, _, _, _)
SetChildBits(bs, base, index, from) ==
    IF from >= cfg.bitQuantum THEN [ok |-> TRUE, bs |-> bs]
    ELSE LET r == IF ((index \div Pow2(from)) % 2) = 1
                  THEN Set(bs, base + from) ELSE Unset(bs, base + from)
         IN IF ~r.ok THEN r ELSE SetChildBits(r.bs, base, index, from + 1)

\* the outer loop of Children from child i on
RECURSIVE ChildrenFrom(_, _, _)
ChildrenFrom(key, i, result) ==
    IF i >= cfg.bitQuantum THEN [panic |-> "", result |-> result]
    ELSE LET childKey == SetChildBits(SetBytes(NewBitstring(key.bits), key.buf),
                                      key.bits, i, 0)
         IN IF ~childKey.ok THEN [panic |-> "index out of range", result |-> result]
            ELSE LET c == Node(childKey.bs) IN
                 IF c.err THEN [panic |-> "Children failed", result |-> result]
                 ELSE ChildrenFrom(key, i + 1, Append(result, c.node))

\* a Children that returns no nodes where a lookup fails
ChildrenNotFound(n) == [panic |-> "", result |-> << >>]

Children(n) ==
    LET k == Key(n) IN
    IF k.panic THEN [panic |-> "Invalid bitstring", result |-> << >>]
    ELSE ChildrenFrom(k.bs, 0, << >>)

\* Elements() and SValues(): panic is TRUE on "Invalid elements"
Elements(n) ==
    LET r == ReadZZarray(n.elements) IN [panic |-> r.err, arr |-> r.arr]

SValues(n) ==
    LET r == ReadZZarray(n.svalues) IN [panic |-> r.err, arr |-> r.arr]

Size(n) == n.numElements

\* Parent(): ok is the second result; ReadBitstring's error is dropped, so a
\* key that does not decode is a nil dereference
Parent(n) ==
    IF Len(n.key) = 0 THEN [panic |-> "", ok |-> FALSE, node |-> NilNode]
    ELSE LET k == ReadBitstring(n.key) IN
         IF k.err THEN [panic |-> "nil dereference", ok |-> FALSE, node |-> NilNode]
         ELSE LET parentKey == SetBytes(NewBitstring(k.bs.bits - cfg.bitQuantum), k.bs.buf)
                  p == Node(parentKey)
              IN IF p.err
                 THEN [panic |-> "Failed to get parent", ok |-> FALSE, node |-> NilNode]
                 ELSE [panic |-> "", ok |-> TRUE, node |-> p.node]

\* AddElementArray(tree, z): the deltas point_j - z
AddElementArray(z) ==
    IF \E i \in 1..Len(points) : ~Sub(Z(z.P), points[i], z).ok
    THEN [panic |-> "finite field mismatch", marray |-> << >>]
    ELSE [panic |-> "", marray |-> [i \in 1..Len(points) |-> Sub(Z(z.P), points[i], z).z]]

\* the index of the child an element's key selects at a depth
RECURSIVE ChildIndex(_, _, _)
ChildIndex(bs, depth, from) ==
    IF from >= cfg.bitQuantum THEN [ok |-> TRUE, i |-> 0]
    ELSE LET g == Get(bs, depth * cfg.bitQuantum + from)
             rest == ChildIndex(bs, depth, from + 1)
         IN IF ~g.ok \/ ~rest.ok THEN [ok |-> FALSE, i |-> 0]
            ELSE [ok |-> TRUE, i |-> g.b * Pow2(from) + rest.i]

\* the element's key: the reversed bytes of z in a P_SKS-bit string
ElementKey(z) == SetBytes(NewBitstring(BitLen(P_SKS)), ReverseBytes(ZpBytes(z)))

\* the loop of updateSvalues from index i on (ptree.go:408-410): it ends at
\* the first index that the svalues read do not have, or whose product is
\* across fields
RECURSIVE mulSvalues(_, _, _, _)
mulSvalues(z, svalues, marray, i) ==
    IF i > Len(marray) THEN [panic |-> "", arr |-> svalues]
    ELSE IF i > Len(svalues) THEN [panic |-> "index out of range", arr |-> svalues]
    ELSE LET m == Mul(Z(z.P), svalues[i], marray[i]) IN
         IF ~m.ok THEN [panic |-> "finite field mismatch", arr |-> svalues]
         ELSE mulSvalues(z, [svalues EXCEPT ![i] = m.z], marray, i + 1)

updateSvalues(n, z, marray) ==
    IF Len(marray) # Len(points)
    THEN [panic |-> "Inconsistent NumSamples size", n |-> n]
    ELSE LET r == ReadZZarray(n.svalues) IN
         IF r.err THEN [panic |-> "Failed to read svalues", n |-> n]
         ELSE LET sv == mulSvalues(z, r.arr, marray, 1) IN
              IF sv.panic # "" THEN [panic |-> sv.panic, n |-> n]
              ELSE [panic |-> "", n |-> [n EXCEPT !.svalues = WriteZZarray(<< >>, sv.arr)]]

\* newChildNode: a node that holds only its key; it is not put in the store
\* and the parent's childKeys are not changed
newChildNode(parent, childIndex) ==
    LET k == Key(parent) IN
    IF k.panic THEN [panic |-> "Invalid bitstring", child |-> NilNode]
    ELSE LET childKey == SetChildBits(
                 SetBytes(NewBitstring(k.bs.bits + cfg.bitQuantum), k.bs.buf),
                 k.bs.bits, childIndex, 0)
         IN IF ~childKey.ok THEN [panic |-> "index out of range", child |-> NilNode]
            ELSE [panic |-> "",
                  child |-> [NilNode EXCEPT !.key = WriteBitstring(<< >>, childKey.bs)]]

RECURSIVE insert(_, _, _, _, _)
RECURSIVE split(_, _)
RECURSIVE splitElements(_, _, _, _)

\* the deeper of two levels
Deeper(a, b) == IF a >= b THEN a ELSE b

NextChild(n, bs, depth) ==
    With(Children(n), LAMBDA ch :
    With(ChildIndex(bs, depth, 0), LAMBDA idx :
        IF ch.panic # "" THEN [panic |-> ch.panic, node |-> NilNode]
        ELSE IF ~idx.ok \/ idx.i >= Len(ch.result)
             THEN [panic |-> "index out of range", node |-> NilNode]
             ELSE [panic |-> "", node |-> ch.result[idx.i + 1]]))

\* an insert that calls itself on the node it holds where it should call the
\* child: it goes down level after level, past the last level the key has
\* bits for
insertSelf(n, z, marray, bs, depth) ==
    [err |-> "", panic |-> "index out of range", n |-> n, split |-> FALSE,
     deep |-> Deeper(depth, BitLen(P_SKS) \div cfg.bitQuantum + 1)]

\* insert: err is the error returned ("" for nil), panic the panic ("" for
\* none), n the receiver as the call leaves it, split whether split ran,
\* deep the deepest level at which insert was called
insert(n, z, marray, bs, depth) ==
    With(updateSvalues(n, z, marray), LAMBDA u :
    IF u.panic # ""
    THEN [err |-> "", panic |-> u.panic, n |-> n, split |-> FALSE, deep |-> depth]
    ELSE
    With([u.n EXCEPT !.numElements = @ + 1], LAMBDA n1 :
    IF IsLeaf(n1) /\ ~(Len(n1.elements) > cfg.splitThreshold)
    THEN With(ReadZZarray(n1.elements), LAMBDA r :
         IF r.err THEN [err |-> "read elements", panic |-> "", n |-> n1, split |-> FALSE,
                        deep |-> depth]
         ELSE [err |-> "", panic |-> "", split |-> FALSE, deep |-> depth,
               n |-> [n1 EXCEPT !.elements = WriteZZarray(n1.elements, Append(r.arr, z))]])
    ELSE
    With(IF IsLeaf(n1) THEN split(n1, depth) ELSE [panic |-> "", n |-> n1, deep |-> depth],
         LAMBDA s :
    IF s.panic # ""
    THEN [err |-> "", panic |-> s.panic, n |-> s.n, split |-> TRUE, deep |-> s.deep]
    ELSE
    With(NextChild(s.n, bs, depth), LAMBDA c :
    IF c.panic # ""
    THEN [err |-> "", panic |-> c.panic, n |-> s.n, split |-> IsLeaf(n1), deep |-> s.deep]
    ELSE With(insert(c.node, z, marray, bs, depth + 1), LAMBDA ci :
         [err |-> ci.err, panic |-> ci.panic, n |-> s.n, split |-> IsLeaf(n1),
          deep |-> Deeper(s.deep, ci.deep)])))))

\* the loop of split over the elements from the k-th on: the panic ("" for
\* none) and the deepest level an insert of it was called at
splitElements(n, elements, k, depth) ==
    IF k > Len(elements) THEN [panic |-> "", deep |-> depth]
    ELSE With(elements[k], LAMBDA element :
         With(ElementKey(element), LAMBDA bs :
         With(NextChild(n, bs, depth), LAMBDA child :
         With(AddElementArray(element), LAMBDA a :
            IF child.panic # "" THEN [panic |-> child.panic, deep |-> depth]
            ELSE IF a.panic # "" THEN [panic |-> a.panic, deep |-> depth]
            ELSE With(insert(child.node, element, a.marray, bs, depth + 1), LAMBDA ci :
                 IF ci.panic # "" THEN [panic |-> ci.panic, deep |-> ci.deep]
                 ELSE With(splitElements(n, elements, k + 1, depth), LAMBDA rest :
                      [panic |-> rest.panic, deep |-> Deeper(ci.deep, rest.deep)]))))))

\* the loop of split that creates the children: "" or the first panic
RECURSIVE splitChildren(_, _)
splitChildren(n, i) ==
    IF i >= Pow2(cfg.bitQuantum) THEN ""
    ELSE With(newChildNode(n, i), LAMBDA c :
         IF c.panic # "" THEN c.panic ELSE splitChildren(n, i + 1))

split(n, depth) ==
    With(splitChildren(n, 0), LAMBDA made :
    IF made # "" THEN [panic |-> made, n |-> n, deep |-> depth]
    ELSE With(ReadZZarray(n.elements), LAMBDA r :
         IF r.err THEN [panic |-> "Error reading elements", n |-> n, deep |-> depth]
         ELSE With(splitElements(n, r.arr, 1, depth), LAMBDA moved :
              IF moved.panic # "" THEN [panic |-> moved.panic, n |-> n, deep |-> moved.deep]
              ELSE [panic |-> "", n |-> [n EXCEPT !.elements = << >>],
                    deep |-> moved.deep])))

\* the number of Insert calls counted in a bag of accepted elements
RECURSIVE SumOver(_, _)
SumOver(bag, S) ==
    IF S = {} THEN 0
    ELSE LET x == CHOOSE y \in S : TRUE IN bag[x] + SumOver(bag, S \ {x})

Total(bag) == SumOver(bag, DOMAIN bag)

\* prefixTree.Insert
Insert(z) ==
    With(Root, LAMBDA root :
    IF root.err
    THEN [err |-> "not found", panic |-> "", n |-> NilNode, split |-> FALSE, deep |-> 0]
    ELSE With(AddElementArray(z), LAMBDA a :
         IF a.panic # ""
         THEN [err |-> "", panic |-> a.panic, n |-> root.node, split |-> FALSE,
               deep |-> 0]
         ELSE insert(root.node, z, a.marray, ElementKey(z), 0)))

\* the records Insert(z) writes to the collection: Insert, insert, split,
\* newChildNode and updateSvalues change the nodes they hold and make no call
\* of the collection other than Find
Written(z) == {}

\* the collection once the records ws are written to it, each under its key
Upsert(ws) == {r \in store : \A w \in ws : w.key # r.key} \cup ws

\* ------------------------------------------------- the stores at start-up
\* The program never writes the collection, so what it holds is an input: no
\* record, a root leaf, a blank root, or a root with its children present
\* (their keys as raw bytes, the form Node looks up, or in the form
\* newChildNode writes), with or without the root, or a node one level down
\* whose key Key() can read, with documents under the keys Children looks up.
ElemSeq == << 64, 128, 193 >>

Elem(v) == [v |-> v, P |-> P_SKS]

InitElems(k) == [i \in 1..k |-> Elem(ElemSeq[((i - 1) % Len(ElemSeq)) + 1])]

\* a key as its bits, and back
BitsOf(bs) == [i \in 1..bs.bits |-> IF ByteHasBit(bs.buf[((i - 1) \div 8) + 1], i - 1) THEN 1 ELSE 0]

RECURSIVE ByteOfBits(_, _, _)
ByteOfBits(bits, byteNo, k) ==
    IF k >= 8 THEN 0
    ELSE (IF byteNo * 8 + k + 1 <= Len(bits) /\ bits[byteNo * 8 + k + 1] = 1
          THEN Pow2(7 - k) ELSE 0) + ByteOfBits(bits, byteNo, k + 1)

BitstringOf(bits) ==
    [bits |-> Len(bits), buf |-> [i \in 1..ByteLen(Len(bits)) |-> ByteOfBits(bits, i - 1, 0)]]

\* child index i in bq bits, bit j of the index at position j
IndexBits(i, bq) == [j \in 1..bq |-> (i \div Pow2(j - 1)) % 2]

\* the index of the child that the bits at a depth select
RECURSIVE IndexOfBits(_, _, _, _)
IndexOfBits(bits, depth, bq, j) ==
    IF j >= bq THEN 0
    ELSE (IF depth * bq + j + 1 <= Len(bits) THEN bits[depth * bq + j + 1] * Pow2(j) ELSE 0)
         + IndexOfBits(bits, depth, bq, j + 1)

RouteOf(z, depth, bq) == IndexOfBits(BitsOf(ElementKey(z)), depth, bq, 0)

\* the product over els of (pt - e), mod p
RECURSIVE ProdDeltas(_, _, _)
ProdDeltas(pt, els, p) ==
    IF Len(els) = 0 THEN 1 % p
    ELSE ((pt - Head(els).v) * ProdDeltas(pt, Tail(els), p)) % p

SketchOf(pts, els) == [j \in 1..Len(pts) |-> [v |-> ProdDeltas(pts[j].v, els, P_SKS), P |-> P_SKS]]

SelectRoute(els, i, bq) == SelectSeq(els, LAMBDA e : RouteOf(e, 0, bq) = i)

StoredKey(fmt, bs) == IF fmt = "raw" THEN bs.buf ELSE WriteBitstring(<< >>, bs)

LeafRecord(pts, keyBytes, els) ==
    [key |-> keyBytes, numElements |-> Len(els),
     svalues |-> WriteZZarray(<< >>, SketchOf(pts, els)),
     elements |-> WriteZZarray(<< >>, els), childKeys |-> << >>]

InternalRoot(pts, els, bq) ==
    [key |-> << >>, numElements |-> Len(els),
     svalues |-> WriteZZarray(<< >>, SketchOf(pts, els)),
     elements |-> << >>, childKeys |-> [i \in 1..Pow2(bq) |-> i - 1]]

ChildRecords(pts, els, bq, fmt) ==
    { LeafRecord(pts, StoredKey(fmt, BitstringOf(IndexBits(i, bq))), SelectRoute(els, i, bq))
        : i \in 0..(Pow2(bq) - 1) }

\* the elements of els whose keys begin with bits
UnderKey(els, bits) ==
    SelectSeq(els, LAMBDA e : SubSeq(BitsOf(ElementKey(e)), 1, Len(bits)) = bits)

\* the node one level down with child index i0, its key in the form
\* newChildNode writes, and a document under each of the keys of its 2^bq
\* children as raw bytes, the form Children looks up: as an internal node
\* with its elements in the children, or as a leaf that holds them, with the
\* children empty
SubtreeRecords(pts, els, bq, i0, internal) ==
    LET bits == IndexBits(i0, bq)
        leaf == LeafRecord(pts, WriteBitstring(<< >>, BitstringOf(bits)), UnderKey(els, bits))
    IN { IF internal
         THEN [leaf EXCEPT !.elements = << >>, !.childKeys = [i \in 1..Pow2(bq) |-> i - 1]]
         ELSE leaf }
       \cup { LeafRecord(pts, BitstringOf(bits \o IndexBits(i, bq)).buf,
                         IF internal THEN UnderKey(els, bits \o IndexBits(i, bq)) ELSE << >>)
                : i \in 0..(Pow2(bq) - 1) }

InitStores(c, pts) ==
    { {} , {NilNode} }
    \cup { {LeafRecord(pts, << >>, InitElems(k))} : k \in 0..MaxLeaf }
    \cup { ChildRecords(pts, InitElems(3), c.bitQuantum, fmt) : fmt \in {"raw", "enc"} }
    \cup { {InternalRoot(pts, InitElems(3), c.bitQuantum)}
             \cup ChildRecords(pts, InitElems(3), c.bitQuantum, fmt) : fmt \in {"raw", "enc"} }
    \cup { SubtreeRecords(pts, InitElems(k), c.bitQuantum, 1, internal)
             : k \in {0, 3}, internal \in BOOLEAN }

Configs ==
    { MkConfig(t, b, m) : t \in ThreshMults, b \in 1..MaxBitQuantum, m \in 1..MaxMBar }

\* ------------------------------------------------------------ construction
\* the defaults settings.Init() stores in an empty settings collection
DefaultThreshMult == 10
DefaultBitQuantum == 2
DefaultMBar == 5

\* config: the six fields the tree reads; a settings object holds a *config,
\* nil until Init() sets it
ZeroConfig == [threshMult |-> 0, bitQuantum |-> 0, mBar |-> 0,
               splitThreshold |-> 0, joinThreshold |-> 0, numSamples |-> 0]

NilConfig == [isNil |-> TRUE, c |-> ZeroConfig]

ConfigFields == {"threshMult", "bitQuantum", "mBar", "splitThreshold", "joinThreshold",
                 "numSamples"}

\* a document of the settings collection, as the fields it carries; one that
\* carries the six values of c
Document(c) == { << f, c[f] >> : f \in ConfigFields }

\* the document store.Insert makes of a *config: the encoder writes exported
\* fields only, and config has none
Marshal(c) == {}

\* the config q.One(s.config) leaves when it decodes doc into c: the decoder
\* fills exported fields only, so c as it was
Unmarshal(doc, c) == c

\* the documents a settings collection may hold at start-up: one written
\* with the six values, or the one an earlier Init() left
StoredDocs == { Document(c) : c \in Configs } \cup { Marshal(ZeroConfig) }

\* the two clients whose calls of Init() may interleave on one collection
Clients == {1, 2}

\* a settings object: made by newSettings or not, its *config, and where its
\* Init() stands: idle, or counted with n the result of q.Count()
NoSettings == [made |-> FALSE, config |-> NilConfig, pc |-> "idle", n |-> 0]

\* newSettings: the object with its store, and no config yet
newSettings == [NoSettings EXCEPT !.made = TRUE]

\* the config Init() sets for an empty collection, before the derived fields
\* are assigned
DefaultConfig ==
    [ZeroConfig EXCEPT !.threshMult = DefaultThreshMult,
                       !.bitQuantum = DefaultBitQuantum, !.mBar = DefaultMBar]

\* the last three assignments of Init(): the derived fields
Derived(c) ==
    [c EXCEPT !.splitThreshold = c.threshMult * c.mBar,
              !.joinThreshold = (c.threshMult * c.mBar) \div 2,
              !.numSamples = c.mBar + 1]

\* settings.Init() is three calls of the server, each one step: q.Count(),
\* then store.Insert or q.One.  The first: Init panics on its error (countErr)
settingsCount(docs, countErr) ==
    IF countErr THEN [panic |-> "Count", n |-> 0] ELSE [panic |-> "", n |-> Len(docs)]

\* update(): store.Insert(s.config), a panic on its error (insertErr)
update(docs, c, insertErr) ==
    IF insertErr THEN [panic |-> "Insert", docs |-> docs]
    ELSE [panic |-> "", docs |-> Append(docs, Marshal(c))]

\* Init() where Count gave 0: the defaults, update(), the derived fields
settingsDefaults(docs, insertErr) ==
    With(update(docs, DefaultConfig, insertErr), LAMBDA u :
    IF u.panic # ""
    THEN [panic |-> u.panic, docs |-> u.docs,
          config |-> [isNil |-> FALSE, c |-> DefaultConfig]]
    ELSE [panic |-> "", docs |-> u.docs,
          config |-> [isNil |-> FALSE, c |-> Derived(DefaultConfig)]])

\* Init() where Count gave more: a zero config, q.One into it (a panic on
\* its error: oneErr, or no document), the derived fields
settingsLoad(docs, oneErr) ==
    IF oneErr \/ Len(docs) = 0
    THEN [panic |-> "One", docs |-> docs, config |-> [isNil |-> FALSE, c |-> ZeroConfig]]
    ELSE [panic |-> "", docs |-> docs,
          config |-> [isNil |-> FALSE, c |-> Derived(Unmarshal(docs[1], ZeroConfig))]]

\* an accessor of settings (s.config.<field>): panics on a nil config
Accessors == ConfigFields

Accessor(config, field) ==
    IF config.isNil THEN [panic |-> "nil dereference", value |-> 0]
    ELSE [panic |-> "", value |-> config.c[field]]

NumSamples(config) == Accessor(config, "numSamples")

\* newPrefixTree(s, db): indexErr is the error of EnsureIndex
newPrefixTree(config, indexErr) ==
    With(NumSamples(config), LAMBDA ns :
    IF ns.panic # "" THEN [panic |-> ns.panic, err |-> FALSE, tree |-> FALSE, pts |-> << >>]
    ELSE [panic |-> "", err |-> indexErr, tree |-> TRUE, pts |-> Zpoints(P_SKS, ns.value)])

\* NewPeer(connect, db): dialErr is the error of newClient
NewPeer(dialErr, indexErr) ==
    IF dialErr THEN [panic |-> "", err |-> TRUE, s |-> NoSettings,
                     tree |-> FALSE, pts |-> << >>]
    ELSE With(newSettings, LAMBDA s :
         With(newPrefixTree(s.config, indexErr), LAMBDA t :
            IF t.panic # "" THEN [panic |-> t.panic, err |-> FALSE, s |-> s,
                                  tree |-> FALSE, pts |-> << >>]
            ELSE IF t.err THEN [panic |-> "", err |-> TRUE, s |-> s, tree |-> FALSE,
                                pts |-> << >>]
            ELSE [panic |-> "", err |-> FALSE, s |-> s, tree |-> TRUE, pts |-> t.pts]))

NoPeer == [op |-> "none", kind |-> "", msg |-> "", who |-> 0, value |-> 0, ret |-> FALSE,
           docs |-> << >>, s |-> [p \in Clients |-> NoSettings],
           t |-> [p \in Clients |-> [tree |-> FALSE, pts |-> << >>]]]

\* last: kind is ok, none (Parent of the root), error (an error value was
\* returned) or panic; before is the root as Insert found it; n is the node
\* Children, Parent or newChildNode was called on and index the child index;
\* node and nodes are what the call returned (for Insert: the copy of the root
\* it worked on, as the call left it).
NoCall == [op |-> "none", kind |-> "", msg |-> "", z |-> Z(P_SKS),
           bs |-> NewBitstring(0), n |-> NilNode, index |-> 0, before |-> NilNode,
           node |-> NilNode, nodes |-> << >>, split |-> FALSE, deep |-> 0]

NoZp == [op |-> "none", zp |-> Z(1), x |-> Z(1), y |-> Z(1), n |-> 0,
         ok |-> TRUE, z |-> Z(1), c |-> 0]

\* run: no is 0 (no run), 1 or 2; first is the document the server has first
\* in the run under way and first1 the one it had in run 1; calls and outs are
\* the Insert calls of run 1 and their outcomes, outs2 the outcomes of the
\* calls made again in run 2, end1 the collection as run 1 left it
NoRun == [no |-> 0, first |-> NilNode, first1 |-> NilNode, calls |-> << >>,
          outs |-> << >>, outs2 |-> << >>, end1 |-> {}]

\* writer: pc is the statement of insert or split that comes next (idle: no
\* call; done: the call ended with kind and msg; crashed: the process ended at
\* the statement at), n0 the node as the call found it and n as it is now, i
\* and held the loop of split that creates children, els and k its loop over
\* the elements
NoWriter == [pc |-> "idle", at |-> "idle", n0 |-> NilNode, n |-> NilNode, z |-> Z(P_SKS),
             marray |-> << >>, depth |-> 0, i |-> 0, held |-> << >>, els |-> << >>,
             k |-> 0, kind |-> "", msg |-> ""]

\* a tree made by newPrefixTree on settings whose config has the three
\* parameters and the fields Init() derives from them
Init ==
    /\ cfg \in Configs
    /\ points = Zpoints(P_SKS, cfg.numSamples)
    /\ store \in InitStores(cfg, points)
    /\ tree0 = store
    /\ last = NoCall
    /\ accepted = [v \in ElemValues |-> 0]
    /\ zcall = NoZp
    /\ peer = NoPeer
    /\ run = NoRun
    /\ writer = NoWriter

\* ---------------------------------------------------------------- actions
Kind(r) == IF r.panic # "" THEN "panic" ELSE IF r.err # "" THEN "error" ELSE "ok"

Msg(r) == IF r.panic # "" THEN r.panic ELSE r.err

\* the bitstrings a caller may pass to Node
LookupKeys ==
    { NewBitstring(0) }
    \cup { BitstringOf(IndexBits(i, cfg.bitQuantum)) : i \in 0..(Pow2(cfg.bitQuantum) - 1) }
    \cup { [bits |-> 8 * Len(r.key), buf |-> r.key] : r \in store }

\* the prefixNode values the methods are called on: the node Root() and
\* Node() return for a stored key, and a node with the fields of each document
StoreNodes == { Find(r.key).node : r \in store } \cup store

\* those, and a child just created
HeldNodes ==
    StoreNodes \cup (IF last.op = "newChildNode" /\ last.kind = "ok" THEN {last.node} ELSE {})

DoInsert(z) ==
    LET r == Insert(z) IN
    /\ Total(accepted) < MaxInserts
    /\ last' = [NoCall EXCEPT !.op = "Insert", !.kind = Kind(r), !.msg = Msg(r), !.z = z,
                              !.before = Root.node, !.node = r.n, !.split = r.split,
                              !.deep = r.deep]
    /\ accepted' = IF Kind(r) = "ok" THEN [accepted EXCEPT ![z.v] = @ + 1] ELSE accepted
    /\ store' = Upsert(Written(z))
    /\ UNCHANGED << cfg, points, tree0, zcall, peer, run, writer >>

DoRemove(z) ==
    LET r == Remove(z) IN
    /\ last' = [NoCall EXCEPT !.op = "Remove", !.kind = IF r.panic # "" THEN "panic" ELSE "ok",
                              !.msg = r.panic, !.z = z]
    /\ store' = r.store
    /\ UNCHANGED << cfg, points, tree0, accepted, zcall, peer, run, writer >>

DoRoot ==
    LET r == Root IN
    /\ last' = [NoCall EXCEPT !.op = "Root", !.kind = IF r.err THEN "error" ELSE "ok",
                              !.msg = IF r.err THEN "not found" ELSE "",
                              !.node = r.node]
    /\ UNCHANGED << cfg, points, store, tree0, accepted, zcall, peer, run, writer >>

DoNode(bs) ==
    LET r == Node(bs) IN
    /\ last' = [NoCall EXCEPT !.op = "Node", !.bs = bs,
                              !.kind = IF r.err THEN "error" ELSE "ok",
                              !.msg = IF r.err THEN "not found" ELSE "",
                              !.node = r.node]
    /\ UNCHANGED << cfg, points, store, tree0, accepted, zcall, peer, run, writer >>

DoChildren(n) ==
    LET r == Children(n) IN
    /\ last' = [NoCall EXCEPT !.op = "Children", !.n = n,
                              !.kind = IF r.panic # "" THEN "panic" ELSE "ok",
                              !.msg = r.panic, !.nodes = r.result]
    /\ UNCHANGED << cfg, points, store, tree0, accepted, zcall, peer, run, writer >>

DoParent(n) ==
    LET r == Parent(n) IN
    /\ last' = [NoCall EXCEPT !.op = "Parent", !.n = n,
                              !.kind = IF r.panic # "" THEN "panic"
                                       ELSE IF r.ok THEN "ok" ELSE "none",
                              !.msg = r.panic, !.node = r.node]
    /\ UNCHANGED << cfg, points, store, tree0, accepted, zcall, peer, run, writer >>

DoNewChildNode(n, i) ==
    LET r == newChildNode(n, i) IN
    /\ last' = [NoCall EXCEPT !.op = "newChildNode", !.n = n, !.index = i,
                              !.kind = IF r.panic # "" THEN "panic" ELSE "ok",
                              !.msg = r.panic, !.node = r.child]
    /\ UNCHANGED << cfg, points, store, tree0, accepted, zcall, peer, run, writer >>

\* insert called on a node at a depth, as insert and split call it
DoNodeInsert(n, z, depth) ==
    LET a == AddElementArray(z)
        r == insert(n, z, a.marray, ElementKey(z), depth)
    IN
    /\ a.panic = ""
    /\ last' = [NoCall EXCEPT !.op = "insert", !.kind = Kind(r), !.msg = Msg(r), !.z = z,
                              !.n = n, !.index = depth, !.before = n, !.node = r.n,
                              !.split = r.split, !.deep = r.deep]
    /\ UNCHANGED << cfg, points, store, tree0, accepted, zcall, peer, run, writer >>

\* split called on a leaf at a depth, as insert calls it
DoSplit(n, depth) ==
    LET r == split(n, depth) IN
    /\ IsLeaf(n)
    /\ last' = [NoCall EXCEPT !.op = "split", !.n = n, !.index = depth, !.before = n,
                              !.kind = IF r.panic # "" THEN "panic" ELSE "ok",
                              !.msg = r.panic, !.node = r.n, !.split = TRUE,
                              !.deep = r.deep]
    /\ UNCHANGED << cfg, points, store, tree0, accepted, zcall, peer, run, writer >>

Next ==
    \/ \E v \in ElemValues : DoInsert(Elem(v))
    \/ \E v \in ElemValues : DoRemove(Elem(v))
    \/ DoRoot
    \/ \E bs \in LookupKeys : DoNode(bs)
    \/ \E n \in StoreNodes : DoChildren(n)
    \/ \E n \in HeldNodes : DoParent(n)
    \/ \E n \in StoreNodes : \E i \in 0..(Pow2(cfg.bitQuantum) - 1) : DoNewChildNode(n, i)
    \/ \E n \in StoreNodes : \E v \in ElemValues : \E depth \in 0..MaxDepth :
          DoNodeInsert(n, Elem(v), depth)
    \/ \E n \in StoreNodes : \E depth \in 0..MaxDepth : DoSplit(n, depth)

Spec == Init /\ [][Next]_vars

\* ------------------------------------------------- the Zp calls on their own
\* Each behaviour makes one call, on arguments drawn from ZpInts and ZpValues.
ZpInts == (0 - MaxZpInt)..MaxZpInt

ZpValues == [v : ZpInts, P : 1..MaxZpP]

\* the receivers of Add and Mul: a fresh Z(p) or one that holds a value
ZpReceivers == [v : {0, 1}, P : 1..MaxZpP]

InitZp ==
    /\ cfg = MkConfig(1, 1, 1)
    /\ points = Zpoints(P_SKS, cfg.numSamples)
    /\ store = {}
    /\ tree0 = store
    /\ last = NoCall
    /\ accepted = [v \in ElemValues |-> 0]
    /\ zcall = NoZp
    /\ peer = NoPeer
    /\ run = NoRun
    /\ writer = NoWriter

DoNewZp(p, n) ==
    /\ zcall.op = "none"
    /\ zcall' = [NoZp EXCEPT !.op = "NewZp", !.zp = Z(p), !.n = n, !.z = NewZp(p, n)]
    /\ UNCHANGED << cfg, points, store, tree0, last, accepted, peer, run, writer >>

DoAdd(zp, x, y) ==
    /\ zcall.op = "none"
    /\ zcall' = [NoZp EXCEPT !.op = "Add", !.zp = zp, !.x = x, !.y = y,
                             !.ok = Add(zp, x, y).ok, !.z = Add(zp, x, y).z]
    /\ UNCHANGED << cfg, points, store, tree0, last, accepted, peer, run, writer >>

DoMul(zp, x, y) ==
    /\ zcall.op = "none"
    /\ zcall' = [NoZp EXCEPT !.op = "Mul", !.zp = zp, !.x = x, !.y = y,
                             !.ok = Mul(zp, x, y).ok, !.z = Mul(zp, x, y).z]
    /\ UNCHANGED << cfg, points, store, tree0, last, accepted, peer, run, writer >>

DoCmp(zp, x) ==
    /\ zcall.op = "none"
    /\ zcall' = [NoZp EXCEPT !.op = "Cmp", !.zp = zp, !.x = x,
                             !.ok = Cmp(zp, x).ok, !.c = Cmp(zp, x).c]
    /\ UNCHANGED << cfg, points, store, tree0, last, accepted, peer, run, writer >>

\* Norm() called on a Zp as it stands, one that NewZp, Add or Mul returned
\* or one whose value was set without it
DoNorm(zp) ==
    /\ zcall.op = "none" \/ (zcall.op \in {"NewZp", "Add", "Mul"} /\ zp = zcall.z)
    /\ zcall' = [NoZp EXCEPT !.op = "Norm", !.zp = zp, !.z = Norm(zp)]
    /\ UNCHANGED << cfg, points, store, tree0, last, accepted, peer, run, writer >>

NextZp ==
    \/ \E zp \in ZpValues : DoNorm(zp)
    \/ \E p \in 1..MaxZpP : \E n \in ZpInts : DoNewZp(p, n)
    \/ \E zp \in ZpReceivers : \E x \in ZpValues : \E y \in ZpValues : DoAdd(zp, x, y)
    \/ \E zp \in ZpReceivers : \E x \in ZpValues : \E y \in ZpValues : DoMul(zp, x, y)
    \/ \E zp \in ZpValues : \E x \in ZpValues : DoCmp(zp, x)

SpecZp == InitZp /\ [][NextZp]_vars

\* ------------------------------------------------- construction on its own
\* A behaviour starts from a settings collection that is empty or holds one
\* document.  NewPeer is called, or each of two clients makes its settings
\* object and calls Init(), newPrefixTree and the accessors on it; the calls
\* Init() makes of the server are steps of their own, so that the Init() of
\* one client may fall between those of the other.
PeerKind(r) == IF r.panic # "" THEN "panic" ELSE IF r.err THEN "error" ELSE "ok"

InitPeer ==
    /\ cfg = MkConfig(1, 1, 1)
    /\ points = Zpoints(P_SKS, cfg.numSamples)
    /\ store = {}
    /\ tree0 = store
    /\ last = NoCall
    /\ accepted = [v \in ElemValues |-> 0]
    /\ zcall = NoZp
    /\ \E docs \in {<< >>} \cup {<< d >> : d \in StoredDocs} :
          peer = [NoPeer EXCEPT !.docs = docs]
    /\ run = NoRun
    /\ writer = NoWriter

\* the settings object and the tree of NewPeer are its own: what is left of
\* the call is its outcome
DoNewPeer(dialErr, indexErr) ==
    LET r == NewPeer(dialErr, indexErr) IN
    /\ peer.op = "none"
    /\ peer' = [peer EXCEPT !.op = "NewPeer", !.kind = PeerKind(r), !.msg = r.panic,
                            !.ret = r.tree]
    /\ UNCHANGED << cfg, points, store, tree0, last, accepted, zcall, run, writer >>

DoNewSettings(p) ==
    /\ ~peer.s[p].made
    /\ peer' = [peer EXCEPT !.op = "newSettings", !.kind = "ok", !.msg = "", !.who = p,
                            !.value = 0, !.s[p] = newSettings]
    /\ UNCHANGED << cfg, points, store, tree0, last, accepted, zcall, run, writer >>

\* Init(), up to the return of q.Count()
DoInitCount(p, countErr) ==
    LET r == settingsCount(peer.docs, countErr) IN
    /\ peer.s[p].made /\ peer.s[p].pc = "idle"
    /\ peer' = [peer EXCEPT !.op = "Count", !.kind = IF r.panic # "" THEN "panic" ELSE "ok",
                            !.msg = r.panic, !.who = p, !.value = r.n,
                            !.s[p].pc = IF r.panic # "" THEN "idle" ELSE "counted",
                            !.s[p].n = r.n]
    /\ UNCHANGED << cfg, points, store, tree0, last, accepted, zcall, run, writer >>

\* Init() from there on, where the count was 0
DoInitDefaults(p, insertErr) ==
    LET r == settingsDefaults(peer.docs, insertErr) IN
    /\ peer.s[p].pc = "counted" /\ peer.s[p].n = 0
    /\ peer' = [peer EXCEPT !.op = "Init", !.kind = IF r.panic # "" THEN "panic" ELSE "ok",
                            !.msg = r.panic, !.who = p, !.value = 0, !.docs = r.docs,
                            !.s[p] = [newSettings EXCEPT !.config = r.config]]
    /\ UNCHANGED << cfg, points, store, tree0, last, accepted, zcall, run, writer >>

\* Init() from there on, where the count was not 0
DoInitLoad(p, oneErr) ==
    LET r == settingsLoad(peer.docs, oneErr) IN
    /\ peer.s[p].pc = "counted" /\ peer.s[p].n # 0
    /\ peer' = [peer EXCEPT !.op = "Init", !.kind = IF r.panic # "" THEN "panic" ELSE "ok",
                            !.msg = r.panic, !.who = p, !.value = 0, !.docs = r.docs,
                            !.s[p] = [newSettings EXCEPT !.config = r.config]]
    /\ UNCHANGED << cfg, points, store, tree0, last, accepted, zcall, run, writer >>

DoNewPrefixTree(p, indexErr) ==
    LET r == newPrefixTree(peer.s[p].config, indexErr) IN
    /\ peer.s[p].made /\ peer.s[p].pc = "idle" /\ ~peer.t[p].tree
    /\ peer' = [peer EXCEPT !.op = "newPrefixTree", !.kind = PeerKind(r), !.msg = r.panic,
                            !.who = p, !.value = 0,
                            !.t[p] = [tree |-> r.tree, pts |-> r.pts]]
    /\ UNCHANGED << cfg, points, store, tree0, last, accepted, zcall, run, writer >>

DoAccessor(p, field) ==
    LET r == Accessor(peer.s[p].config, field) IN
    /\ peer.s[p].made /\ peer.s[p].pc = "idle"
    /\ peer' = [peer EXCEPT !.op = field, !.kind = IF r.panic # "" THEN "panic" ELSE "ok",
                            !.msg = r.panic, !.who = p, !.value = r.value]
    /\ UNCHANGED << cfg, points, store, tree0, last, accepted, zcall, run, writer >>

NextPeer ==
    \/ \E dialErr \in BOOLEAN : \E indexErr \in BOOLEAN : DoNewPeer(dialErr, indexErr)
    \/ \E p \in Clients : DoNewSettings(p)
    \/ \E p \in Clients : \E countErr \in BOOLEAN : DoInitCount(p, countErr)
    \/ \E p \in Clients : \E insertErr \in BOOLEAN : DoInitDefaults(p, insertErr)
    \/ \E p \in Clients : \E oneErr \in BOOLEAN : DoInitLoad(p, oneErr)
    \/ \E p \in Clients : \E indexErr \in BOOLEAN : DoNewPrefixTree(p, indexErr)
    \/ \E p \in Clients : \E field \in Accessors : DoAccessor(p, field)

SpecPeer == InitPeer /\ [][NextPeer]_vars

\* ------------------------------------------- two runs of the same inserts
\* A run is a client that starts on the collection as tree0 has it and makes
\* Insert calls; the second run makes the calls of the first again, in their
\* order.  What the calls do not fix is the order in which the server keeps
\* the documents: run.first is the one it returns first among those that
\* match a query, and the second run may find another one first.
MaxCalls == 3            \* Insert calls of a run

Outcome(r) == [kind |-> Kind(r), msg |-> Msg(r), node |-> r.n, split |-> r.split]

\* two documents under the root's key: EnsureIndex (ptree.go:214) asks for an
\* index that is not unique
TwinRoots(pts) ==
    { {NilNode, LeafRecord(pts, << >>, << >>)},
      {LeafRecord(pts, << >>, << >>), LeafRecord(pts, << >>, InitElems(1))} }

\* the empty trees a run starts from: no document, a root leaf without
\* elements, and the collections with a second root document
RunStores(pts) ==
    { {}, {LeafRecord(pts, << >>, << >>)} } \cup TwinRoots(pts)

FirstOf(S) == IF S = {} THEN {NilNode} ELSE S

InitRuns ==
    /\ cfg \in Configs
    /\ points = Zpoints(P_SKS, cfg.numSamples)
    /\ store \in RunStores(points)
    /\ tree0 = store
    /\ last = NoCall
    /\ accepted = [v \in ElemValues |-> 0]
    /\ zcall = NoZp
    /\ peer = NoPeer
    /\ run \in { [NoRun EXCEPT !.no = 1, !.first = f, !.first1 = f] : f \in FirstOf(store) }
    /\ writer = NoWriter

\* an Insert call of the first run
RunInsert(z) ==
    LET r == Insert(z) IN
    /\ run.no = 1 /\ Len(run.calls) < MaxCalls
    /\ last' = [NoCall EXCEPT !.op = "Insert", !.kind = Kind(r), !.msg = Msg(r), !.z = z,
                              !.before = Root.node, !.node = r.n, !.split = r.split,
                              !.deep = r.deep]
    /\ accepted' = IF Kind(r) = "ok" THEN [accepted EXCEPT ![z.v] = @ + 1] ELSE accepted
    /\ store' = Upsert(Written(z))
    /\ run' = [run EXCEPT !.calls = Append(@, z), !.outs = Append(@, Outcome(r))]
    /\ UNCHANGED << cfg, points, tree0, zcall, peer, writer >>

\* the second run starts: the collection is as the first run found it, and
\* the server has the document f first
RunAgain(f) ==
    /\ run.no = 1 /\ Len(run.calls) > 0
    /\ store' = tree0
    /\ last' = NoCall
    /\ accepted' = [v \in ElemValues |-> 0]
    /\ run' = [run EXCEPT !.no = 2, !.first = f, !.end1 = store]
    /\ UNCHANGED << cfg, points, tree0, zcall, peer, writer >>

\* the second run makes the next call of the first
RunReplay ==
    LET z == run.calls[Len(run.outs2) + 1]
        r == Insert(z)
    IN
    /\ run.no = 2 /\ Len(run.outs2) < Len(run.calls)
    /\ last' = [NoCall EXCEPT !.op = "Insert", !.kind = Kind(r), !.msg = Msg(r), !.z = z,
                              !.before = Root.node, !.node = r.n, !.split = r.split,
                              !.deep = r.deep]
    /\ accepted' = IF Kind(r) = "ok" THEN [accepted EXCEPT ![z.v] = @ + 1] ELSE accepted
    /\ store' = Upsert(Written(z))
    /\ run' = [run EXCEPT !.outs2 = Append(@, Outcome(r))]
    /\ UNCHANGED << cfg, points, tree0, zcall, peer, writer >>

NextRuns ==
    \/ \E v \in ElemValues : RunInsert(Elem(v))
    \/ \E f \in FirstOf(tree0) : RunAgain(f)
    \/ RunReplay

SpecRuns == InitRuns /\ [][NextRuns]_vars

\* ------------------------------------------- an insert, statement by statement
\* insert called on a node, one statement at a step, with a reader of the
\* collection between any two steps and the end of the process at any step.
\* The lookups of one NextChild are one step, and so is the insert that is
\* called on the child it returns.
Halt(wr, kind, msg) == [wr EXCEPT !.pc = "done", !.at = wr.pc, !.kind = kind, !.msg = msg]

\* the statement of insert (ptree.go:333-356) or split (ptree.go:358-377) at
\* wr.pc: the writer after it
WStep(wr) ==
    With(wr.n, LAMBDA n :
    CASE wr.pc = "update" ->
           With(updateSvalues(n, wr.z, wr.marray), LAMBDA u :
           IF u.panic # "" THEN Halt(wr, "panic", u.panic)
           ELSE [wr EXCEPT !.n = [u.n EXCEPT !.numElements = @ + 1], !.pc = "test"])
      [] wr.pc = "test" ->
           IF IsLeaf(n) /\ Len(n.elements) > cfg.splitThreshold
           THEN [wr EXCEPT !.pc = "create", !.i = 0, !.held = << >>]
           ELSE IF IsLeaf(n)
           THEN With(ReadZZarray(n.elements), LAMBDA r :
                IF r.err THEN Halt(wr, "error", "read elements")
                ELSE Halt([wr EXCEPT !.n.elements = WriteZZarray(n.elements, Append(r.arr, wr.z))],
                          "ok", ""))
           ELSE [wr EXCEPT !.pc = "descend"]
      [] wr.pc = "create" ->
           With(newChildNode(n, wr.i), LAMBDA c :
           IF c.panic # "" THEN Halt(wr, "panic", c.panic)
           ELSE [wr EXCEPT !.held = Append(@, c.child), !.i = @ + 1,
                           !.pc = IF wr.i + 1 >= Pow2(cfg.bitQuantum) THEN "read" ELSE "create"])
      [] wr.pc = "read" ->
           With(ReadZZarray(n.elements), LAMBDA r :
           IF r.err THEN Halt(wr, "panic", "Error reading elements")
           ELSE [wr EXCEPT !.els = r.arr, !.k = 1,
                           !.pc = IF Len(r.arr) = 0 THEN "clear" ELSE "move"])
      [] wr.pc = "move" ->
           With(wr.els[wr.k], LAMBDA element :
           With(NextChild(n, ElementKey(element), wr.depth), LAMBDA child :
           With(AddElementArray(element), LAMBDA a :
           IF child.panic # "" THEN Halt(wr, "panic", child.panic)
           ELSE IF a.panic # "" THEN Halt(wr, "panic", a.panic)
           ELSE With(insert(child.node, element, a.marray, ElementKey(element),
                            wr.depth + 1), LAMBDA ci :
                IF ci.panic # "" THEN Halt(wr, "panic", ci.panic)
                ELSE [wr EXCEPT !.k = @ + 1,
                                !.pc = IF wr.k + 1 > Len(wr.els) THEN "clear" ELSE "move"]))))
      [] wr.pc = "clear" ->
           [wr EXCEPT !.n.elements = << >>, !.pc = "descend"]
      [] wr.pc = "descend" ->
           With(NextChild(n, ElementKey(wr.z), wr.depth), LAMBDA c :
           IF c.panic # "" THEN Halt(wr, "panic", c.panic)
           ELSE With(insert(c.node, wr.z, wr.marray, ElementKey(wr.z), wr.depth + 1),
                     LAMBDA ci : Halt(wr, Kind(ci), Msg(ci))))
      [] OTHER -> wr)

\* a split that records the node as an internal one in the collection once
\* it has made the children, which it has not stored
StepWrittenParentFirst(wr) ==
    IF wr.pc = "read"
    THEN {[wr.n EXCEPT !.elements = << >>,
                       !.childKeys = [i \in 1..Pow2(cfg.bitQuantum) |-> i - 1]]}
    ELSE {}

\* the documents the statement at wr.pc writes to the collection: no statement
\* of insert, split, newChildNode or updateSvalues calls the collection
\* other than through Node
StepWritten(wr) == {}

Running == writer.pc \notin {"idle", "done", "crashed"}

\* the collections an insert is followed on: no document, a blank root, a
\* root leaf, a root with its children, children without a root, and one that
\* holds an internal node with its children and a leaf that can split
StepStores(c, pts) ==
    { {}, {NilNode}, {LeafRecord(pts, << >>, InitElems(MaxLeaf))} }
    \cup { {InternalRoot(pts, InitElems(3), c.bitQuantum)}
             \cup ChildRecords(pts, InitElems(3), c.bitQuantum, "raw") }
    \cup { ChildRecords(pts, InitElems(3), c.bitQuantum, "enc") }
    \cup { SubtreeRecords(pts, InitElems(3), c.bitQuantum, 0, TRUE)
             \cup SubtreeRecords(pts, InitElems(k), c.bitQuantum, 1, FALSE) : k \in {0, 3} }

\* the keys a reader looks up: the root's, and those of the stored internal
\* nodes
ReadKeys ==
    { NewBitstring(0) }
    \cup { [bits |-> 8 * Len(r.key), buf |-> r.key] : r \in {q \in store : ~IsLeaf(q)} }

InitSteps ==
    /\ cfg \in Configs
    /\ points = Zpoints(P_SKS, cfg.numSamples)
    /\ store \in StepStores(cfg, points)
    /\ tree0 = store
    /\ last = NoCall
    /\ accepted = [v \in ElemValues |-> 0]
    /\ zcall = NoZp
    /\ peer = NoPeer
    /\ run = NoRun
    /\ writer = NoWriter

\* insert is called on a node
DoStart(n, z, depth) ==
    LET a == AddElementArray(z) IN
    /\ writer.pc = "idle" /\ a.panic = ""
    /\ writer' = [NoWriter EXCEPT !.pc = "update", !.n0 = n, !.n = n, !.z = z,
                                  !.marray = a.marray, !.depth = depth]
    /\ UNCHANGED << cfg, points, store, tree0, last, accepted, zcall, peer, run >>

\* its next statement
DoStep ==
    /\ Running
    /\ writer' = WStep(writer)
    /\ store' = Upsert(StepWritten(writer))
    /\ UNCHANGED << cfg, points, tree0, last, accepted, zcall, peer, run >>

\* the process ends before its next statement
DoCrash ==
    /\ Running
    /\ writer' = [writer EXCEPT !.pc = "crashed", !.at = writer.pc]
    /\ UNCHANGED << cfg, points, store, tree0, last, accepted, zcall, peer, run >>

\* another client reads a node while the insert is under way, or after it
DoRead(bs) ==
    LET r == Node(bs) IN
    /\ writer.pc # "idle"
    /\ last' = [NoCall EXCEPT !.op = "Node", !.bs = bs,
                              !.kind = IF r.err THEN "error" ELSE "ok",
                              !.msg = IF r.err THEN "not found" ELSE "",
                              !.node = r.node]
    /\ UNCHANGED << cfg, points, store, tree0, accepted, zcall, peer, run, writer >>

NextSteps ==
    \/ \E n \in StoreNodes : \E v \in ElemValues : \E depth \in 0..MaxDepth :
          DoStart(n, Elem(v), depth)
    \/ DoStep
    \/ DoCrash
    \/ \E bs \in ReadKeys : DoRead(bs)

SpecSteps == InitSteps /\ [][NextSteps]_vars

\* ------------------------------------------------------------------ claims
\* What the claims are stated over: the root the tree started from, the
\* accepted elements as a sequence, and keys as bit sequences.
HasRoot0 == \E r \in tree0 : r.key = << >>

Root0 == CHOOSE r \in tree0 : r.key = << >>

RECURSIVE BagSeq(_, _)
BagSeq(bag, S) ==
    IF S = {} THEN << >>
    ELSE LET x == CHOOSE y \in S : TRUE
         IN [i \in 1..bag[x] |-> Elem(x)] \o BagSeq(bag, S \ {x})

AcceptedSeq == BagSeq(accepted, DOMAIN accepted)

\* a well-formed leaf: its payload and its sample values decode
ReadableLeaf(n) == IsLeaf(n) /\ ~Elements(n).panic /\ ~SValues(n).panic

Count(els, v) == Len(SelectSeq(els, LAMBDA e : e.v = v))

\* the key of a document as the bits it stands for: none for the root's
\* empty key, else those of the form newChildNode writes
KeyBits(n) == IF n.key = << >> THEN << >> ELSE BitsOf(ReadBitstring(n.key).bs)

ChildBits(n, i) == KeyBits(n) \o IndexBits(i, cfg.bitQuantum)

Stored(keyBytes) == \E r \in store : r.key = keyBytes

\* the records of the store that are child i of the root, in either form
RootChild(i) ==
    { r \in store : r.key \in { StoredKey(fmt, BitstringOf(IndexBits(i, cfg.bitQuantum)))
                                  : fmt \in {"raw", "enc"} } }

\* an Insert on the tree, or an insert on a node
ByInsert == last.op \in {"Insert", "insert"}

\* the tree started from a root that is a well-formed leaf
GoodRoot0 == HasRoot0 /\ ReadableLeaf(Root0)

\* C1: in every state reached by Insert calls from an initial tree, the
\* sample values of a node are the products, over the elements stored under it,
\* of (point_j - e) mod P: for the root that Root() returns, of a tree that
\* started as a leaf, and for a leaf as insert leaves it.
C1_SketchInvariant ==
    /\ GoodRoot0 =>
          /\ ~Root.err
          /\ ~SValues(Root.node).panic
          /\ SValues(Root.node).arr = SketchOf(points, Elements(Root0).arr \o AcceptedSeq)
    /\ (last.op = "insert" /\ last.kind = "ok" /\ ReadableLeaf(last.before)
          /\ SValues(last.before).arr = SketchOf(points, Elements(last.before).arr)) =>
          /\ ~SValues(last.node).panic /\ ~Elements(last.node).panic
          /\ SValues(last.node).arr = SketchOf(points, Elements(last.node).arr)

\* C2: after Insert(z) on a tree whose root is a well-formed leaf, every
\* sample value of the root (it is on every path) is its value before the
\* call times (point_j - z) mod P; so it is for a node after insert.
C2_PathMultiplied ==
    /\ (last.op = "Insert" /\ GoodRoot0) =>
          /\ ~Root.err
          /\ ~SValues(Root.node).panic
          /\ \A j \in 1..Len(points) :
                SValues(Root.node).arr[j].v
                  = (SValues(Root0).arr[j].v * ((points[j].v - last.z.v) % P_SKS)) % P_SKS
    /\ (last.op = "insert" /\ last.kind = "ok" /\ ~SValues(last.before).panic) =>
          /\ ~SValues(last.node).panic
          /\ \A j \in 1..Len(points) :
                SValues(last.node).arr[j].v
                  = (SValues(last.before).arr[j].v
                       * ((points[j].v - last.z.v) % P_SKS)) % P_SKS

\* C3: numElements of the root, as Root() returns it, is the number of
\* elements it started with plus the number of successful inserts.
C3_NumElements ==
    HasRoot0 => (~Root.err /\ Root.node.numElements = Root0.numElements + Total(accepted))

\* C4: a leaf splits during an insert exactly when its serialized element
\* list, with the inserted element, is longer than splitThreshold; with
\* bitQuantum 2, mBar 2 and a threshold of exactly 4 serialized elements, the
\* inserts into an empty root succeed without a split up to the 4th, and the
\* root counts them.
C4_SplitTrigger ==
    /\ (ByInsert /\ last.kind # "error" /\ ReadableLeaf(last.before)) =>
          (last.split <=>
             Len(WriteZZarray(<< >>, Append(Elements(last.before).arr, last.z)))
                > cfg.splitThreshold)
    /\ ( /\ cfg.bitQuantum = 2 /\ cfg.mBar = 2
         /\ cfg.splitThreshold = Len(WriteZZarray(<< >>, InitElems(4)))
         /\ tree0 = {LeafRecord(points, << >>, << >>)}
         /\ last.op = "Insert" ) =>
          /\ last.kind = "ok" /\ ~last.split
          /\ ~Root.err /\ Root.node.numElements = Total(accepted)

\* C5: right after a root leaf splits, its 2^bitQuantum children are there and
\* hold between them the elements the leaf held and the element that was
\* inserted, each as often as it was there, and the leaf's own payload is
\* empty.
C5_SplitKeepsElements ==
    (ByInsert /\ last.split /\ ReadableLeaf(last.before) /\ last.before.key = << >>) =>
        /\ \A i \in 0..(Pow2(cfg.bitQuantum) - 1) :
              \E r \in RootChild(i) : ~Elements(r).panic
        /\ \A v \in ElemValues :
              SumOver([i \in 0..(Pow2(cfg.bitQuantum) - 1) |->
                          Count(Elements(CHOOSE r \in RootChild(i) : TRUE).arr, v)],
                      0..(Pow2(cfg.bitQuantum) - 1))
                = Count(Append(Elements(last.before).arr, last.z), v)
        /\ Len(last.node.elements) = 0

\* C6: Remove always ends in the panic "remove not impl" and leaves the
\* collection as it was.
C6_RemoveUnsupported ==
    last.op = "Remove" =>
        (last.kind = "panic" /\ last.msg = "remove not impl" /\ store = tree0)

C6_Witness ==
    last.op = "Remove" /\ last.kind = "panic" /\ \E r \in store : Len(r.elements) > 0

\* C7: Children(node) is empty for a leaf, and for an internal node it is the
\* 2^bitQuantum nodes whose keys are the node's key followed by the child index.
C7_Children ==
    last.op = "Children" =>
        /\ last.kind = "ok"
        /\ IF IsLeaf(last.n) THEN last.nodes = << >>
           ELSE /\ Len(last.nodes) = Pow2(cfg.bitQuantum)
                /\ \A i \in 0..(Pow2(cfg.bitQuantum) - 1) :
                      KeyBits(last.nodes[i + 1]) = ChildBits(last.n, i)

\* C8: the child created for (n, i) has n's key with i appended; Parent of a
\* child is the node stored under its key less the last bitQuantum bits, and
\* Parent of the root is none; a child is created under the key it is looked
\* up by.
C8_KeyRoundTrip ==
    /\ last.op = "newChildNode" =>
          /\ last.kind = "ok"
          /\ ~ReadBitstring(last.node.key).err
          /\ KeyBits(last.node) = ChildBits(last.n, last.index)
          /\ last.node.key = BitstringOf(ChildBits(last.n, last.index)).buf
    /\ (last.op = "Parent" /\ last.n.key = << >>) => last.kind = "none"
    /\ (last.op = "Parent" /\ last.n.key # << >>
          /\ \E p \in store : \E i \in 0..(Pow2(cfg.bitQuantum) - 1) :
                last.n.key \in { StoredKey(fmt, BitstringOf(ChildBits(p, i)))
                                   : fmt \in {"raw", "enc"} }) =>
          /\ last.kind = "ok"
          /\ \E i \in 0..(Pow2(cfg.bitQuantum) - 1) :
                last.n.key \in { StoredKey(fmt, BitstringOf(ChildBits(last.node, i)))
                                   : fmt \in {"raw", "enc"} }

\* the lookups Children and Parent make for a node: a child the loop of
\* Children asks for is not stored; the parent is not stored
ChildLookupFails(n) ==
    /\ ~ReadBitstring(n.key).err
    /\ \E i \in 0..(cfg.bitQuantum - 1) : ~Stored(BitstringOf(ChildBits(n, i)).buf)

ParentLookupFails(n) ==
    /\ n.key # << >>
    /\ \/ ReadBitstring(n.key).err
       \/ ~Stored(BitstringOf(SubSeq(KeyBits(n), 1, Len(KeyBits(n)) - cfg.bitQuantum)).buf)

\* C9: Root and Node on a key that is not stored return the not-found error,
\* and so does Insert without a root, which changes nothing; Children and
\* Parent end in a panic when the child or parent they look up is missing.
C9_MissingKeyOutcomes ==
    /\ (last.op = "Root" /\ ~Stored(<< >>)) =>
          (last.kind = "error" /\ last.msg = "not found")
    /\ (last.op = "Node" /\ ~Stored(last.bs.buf)) =>
          (last.kind = "error" /\ last.msg = "not found")
    /\ (last.op = "Insert" /\ ~Stored(<< >>)) =>
          (last.kind = "error" /\ last.msg = "not found" /\ last.node = NilNode
             /\ store = tree0)
    /\ (last.op = "Children" /\ ChildLookupFails(last.n)) => last.kind = "panic"
    /\ (last.op = "Parent" /\ ParentLookupFails(last.n)) => last.kind = "panic"

C9_Witness ==
    /\ last.op = "Children" /\ ChildLookupFails(last.n)
    /\ last.kind = "panic" /\ last.msg = "Children failed"

\* r is n mod p: it lies in 0..p-1 and differs from n by a multiple of p
IsModOf(r, n, p) ==
    /\ r \in 0..(p - 1)
    /\ \E k \in (0 - (MaxZpInt * MaxZpInt + 1))..(MaxZpInt * MaxZpInt + 1) : n = k * p + r

\* C10: for every modulus P > 0 the value of NewZp(P, n), Add(x, y) and
\* Mul(x, y) lies in [0, P) and is n mod P, (x + y) mod P and (x * y) mod P,
\* for operands that share P; Norm, which the three end in, leaves its
\* receiver at its value mod P.
C10_FieldRange ==
    /\ zcall.op = "NewZp" =>
          (zcall.z.P = zcall.zp.P /\ IsModOf(zcall.z.v, zcall.n, zcall.zp.P))
    /\ (zcall.op = "Add" /\ zcall.ok) =>
          (zcall.z.P = zcall.zp.P /\ IsModOf(zcall.z.v, zcall.x.v + zcall.y.v, zcall.zp.P))
    /\ (zcall.op = "Mul" /\ zcall.ok) =>
          (zcall.z.P = zcall.zp.P /\ IsModOf(zcall.z.v, zcall.x.v * zcall.y.v, zcall.zp.P))
    /\ (zcall.op \in {"Add", "Mul"} /\ zcall.x.P = zcall.zp.P /\ zcall.y.P = zcall.zp.P) =>
          zcall.ok
    /\ zcall.op = "Norm" =>
          (zcall.z.P = zcall.zp.P /\ IsModOf(zcall.z.v, zcall.zp.v, zcall.zp.P))

C10_Witness ==
    /\ zcall.op = "Mul" /\ zcall.ok
    /\ zcall.x.v < 0 /\ zcall.y.v > 0 /\ zcall.z.v > 0

\* the moduli of a call's receiver and operands are not all the same
Mismatch ==
    \/ zcall.op \in {"Add", "Mul"}
          /\ (zcall.x.P # zcall.zp.P \/ zcall.y.P # zcall.zp.P \/ zcall.x.P # zcall.y.P)
    \/ zcall.op = "Cmp" /\ zcall.x.P # zcall.zp.P

\* C11: Add, Mul and Cmp on operands whose moduli differ end in the
\* field-mismatch panic, give no result, and leave the receiver as it was.
C11_FieldMismatch ==
    Mismatch =>
        /\ ~zcall.ok
        /\ zcall.op \in {"Add", "Mul"} => zcall.z = zcall.zp
        /\ zcall.op = "Cmp" => zcall.c = NoZp.c

C11_Witness ==
    /\ zcall.op = "Add" /\ ~zcall.ok
    /\ zcall.x.P = zcall.zp.P /\ zcall.y.P # zcall.zp.P
    /\ zcall.zp.v # 0 /\ zcall.z = zcall.zp

C13_SamplePoints ==
    /\ \A p \in Clients : peer.t[p].tree =>
          /\ ~peer.s[p].config.isNil
          /\ Len(peer.t[p].pts) = peer.s[p].config.c.mBar + 1
          /\ Len(peer.t[p].pts) = peer.s[p].config.c.numSamples
    /\ (peer.op = "NewPeer" /\ peer.kind # "error") => (peer.kind = "ok" /\ peer.ret)
    /\ peer.op \in {"NewPeer", "newPrefixTree"} => peer.msg # "nil dereference"

\* C14: when a leaf splits, the node is internal at the end of the call: it
\* has 2^bitQuantum child references and an empty payload, and the node
\* stored under its key is internal from then on; no stored node has both a
\* payload that holds elements and children.
C14_LeafToInternal ==
    /\ (last.op \in {"Insert", "insert", "split"} /\ last.split) =>
          /\ last.kind # "panic"
          /\ ~IsLeaf(last.node)
          /\ Len(last.node.childKeys) = Pow2(cfg.bitQuantum)
          /\ Len(last.node.elements) = 0
    /\ (ByInsert /\ last.split) =>
          \A r \in store : r.key = last.before.key => ~IsLeaf(r)
    /\ \A r \in store :
          ~(~IsLeaf(r) /\ ~Elements(r).panic /\ Len(Elements(r).arr) > 0)

\* a stored internal node has every one of its 2^bitQuantum children stored
\* under the key Node looks it up by
HasAllChildren(r, S) ==
    \A i \in 0..(Pow2(cfg.bitQuantum) - 1) :
        \E q \in S : q.key = BitstringOf(ChildBits(r, i)).buf

AllInternalComplete(S) == \A r \in S : ~IsLeaf(r) => HasAllChildren(r, S)

C16_ReadAfterWrite ==
    (ByInsert /\ last.kind = "ok") =>
        /\ ~Find(last.node.key).err
        /\ Find(last.node.key).node.numElements = last.node.numElements
        /\ Find(last.node.key).node.svalues = last.node.svalues
        /\ Find(last.node.key).node.elements = last.node.elements

\* C17: when an insert of z ends at a leaf that does not split, the payload of
\* the leaf as the call leaves it reads back as the elements it held followed
\* by z, from an empty payload as from one that holds elements.
C17_LeafAppend ==
    (ByInsert /\ last.kind = "ok" /\ ~last.split /\ ReadableLeaf(last.before)) =>
        /\ ~Elements(last.node).panic
        /\ Elements(last.node).arr = Append(Elements(last.before).arr, last.z)

\* C18: when an insert ends in an error or a panic, the node it worked on is
\* as it was (sample values, numElements and payload), and so is every node
\* of the store: none has its sketch or count changed for an element that is
\* not recorded under it.
C18_NoHalfApplied ==
    (ByInsert /\ last.kind \in {"error", "panic"}) =>
        /\ last.node.svalues = last.before.svalues
        /\ last.node.numElements = last.before.numElements
        /\ last.node.elements = last.before.elements
        /\ store = tree0

\* a stored key that Key() can read (the root's is the empty key)
KeyReadable(r) == r.key = << >> \/ ~ReadBitstring(r.key).err

\* C19: the elements in a leaf's payload have keys that begin with the leaf's
\* key, node keys are a multiple of bitQuantum bits long, and the child an
\* insert goes down to from an internal node is the one whose index is the
\* bits of the element's key at that depth.
C19_Routing ==
    /\ \A r \in store : KeyReadable(r) =>
          /\ Len(KeyBits(r)) % cfg.bitQuantum = 0
          /\ (IsLeaf(r) /\ ~Elements(r).panic) =>
                \A k \in 1..Len(Elements(r).arr) :
                    SubSeq(BitsOf(ElementKey(Elements(r).arr[k])), 1, Len(KeyBits(r)))
                      = KeyBits(r)
    /\ (last.op = "insert" /\ ~IsLeaf(last.before) /\ HasAllChildren(last.before, store)) =>
          /\ last.kind = "ok"
          /\ NextChild(last.before, ElementKey(last.z), last.index).panic = ""
          /\ NextChild(last.before, ElementKey(last.z), last.index).node.key
                = BitstringOf(KeyBits(last.before)
                                \o IndexBits(RouteOf(last.z, last.index, cfg.bitQuantum),
                                             cfg.bitQuantum)).buf

====
